---- MODULE Spec2Model ----
(***************************************************************************)
(* Model of the extraction pipeline of the model catalogue backend:        *)
(*   - LLMService._call_claude_with_retry  (retrying LLM transport)        *)
(*   - LLMService.extract_model_data       (extraction orchestrator)       *)
(*   - extract_and_create_model            (POST /api/v1/extract)          *)
(*   - create_model                        (POST /api/v1/models/)          *)
(*   - the models table with its unique index on name                      *)
(*                                                                         *)
(* Every task is one coroutine.  A task's record holds the coroutine's     *)
(* arguments, its local variables and its position (pc); an action is the  *)
(* code a coroutine runs between two suspension points (await).            *)
(* Delays are counted in whole units of the initial delay's resolution:    *)
(* doubling a binary float is exact, so integers lose nothing here.        *)
(***************************************************************************)
EXTENDS Integers, Sequences, FiniteSets, TLC

VARIABLES task, db, id_seq

vars == <<task, db, id_seq>>

(***************************************************************************)
(* Bounds of the model                                                     *)
(***************************************************************************)
\* largest max_retries a direct caller of the transport passes
MaxRetriesArg == 3
\* largest initial_delay a direct caller of the transport passes
MaxDelayArg == 2
\* longest text handed directly to extract_model_data
MaxTextLen == 3

(***************************************************************************)
(* Program constants                                                       *)
(***************************************************************************)
DEFAULT_MODEL == "claude-sonnet-4-5"
\* default of the parameter max_retries of _call_claude_with_retry
DEFAULT_MAX_RETRIES == 3
\* default of the parameter initial_delay of _call_claude_with_retry
DEFAULT_INITIAL_DELAY == 1
\* ExtractRequest.text: Field(min_length=10)
MIN_TEXT_LENGTH == 10

(***************************************************************************)
(* Values                                                                  *)
(***************************************************************************)
\* Python's None where the value is otherwise a record
None == [none |-> TRUE]
\* Python's None where the value is otherwise a string
NoneStr == "None"

Whitespace == {" ", "\n"}
Chars == Whitespace \cup {"a"}

\* the exception classes the provider client raises
RetryableErrors == {"RateLimitError", "InternalServerError", "APIConnectionError"}
OtherAPIErrors == {"BadRequestError", "AuthenticationError"}
ProviderErrors == RetryableErrors \cup OtherAPIErrors

ModelNames == {"gpt-4", "llama-2"}
Organizations == {NoneStr, "OpenAI"}

\* ExtractedModel: model_name and description required, the rest optional
ExtractedModels ==
  [model_name : ModelNames,
   organization : Organizations,
   release_date : {NoneStr, "2023-03-14"},
   description : {"A large multimodal model"},
   license : {"Proprietary"}]

\* response.usage of the provider
Usages ==
  [input_tokens : {0, 500},
   output_tokens : {150},
   cache_creation_input_tokens : {0},
   cache_read_input_tokens : {20}]

\* what client.beta.messages.parse can return: a parsed payload or none
ParsedResponses ==
  [api : {"beta.messages.parse"},
   parsed_output : ExtractedModels \cup {None},
   usage : Usages]

\* what client.messages.create returns: a message without parsed payload
PlainResponses ==
  [api : {"messages.create"},
   parsed_output : {None},
   usage : Usages]

RECURSIVE TextsOfLen(_)
TextsOfLen(n) ==
  IF n = 0 THEN {<<>>}
  ELSE {Append(s, c) : s \in TextsOfLen(n - 1), c \in Chars}

\* every string over Chars of length at most n
TextsUpTo(n) == UNION {TextsOfLen(k) : k \in 0..n}

\* n copies of the character c
Repeat(c, n) == [i \in 1..n |-> c]

(***************************************************************************)
(* Pure functions of the program                                           *)
(***************************************************************************)
RECURSIVE lstrip(_)
lstrip(s) ==
  IF s # <<>> /\ Head(s) \in Whitespace THEN lstrip(Tail(s)) ELSE s

RECURSIVE rstrip(_)
rstrip(s) ==
  IF s # <<>> /\ s[Len(s)] \in Whitespace
  THEN rstrip(SubSeq(s, 1, Len(s) - 1))
  ELSE s

\* str.strip(): drop leading and trailing whitespace
strip(s) == rstrip(lstrip(s))

\* variant: only the empty string is rejected, blank text passes
text_is_empty_no_strip(text) == Len(text) = 0

\* extract_model_data: `not text or text.strip() == ""`
text_is_empty(text) == Len(text) = 0 \/ strip(text) = <<>>

\* _call_claude_with_retry: `range(max_retries + 1)`
attempt_range(max_retries) == 0..max_retries

\* variant: every provider error is retried
is_retryable_any_error(e) == e \in ProviderErrors

\* _call_claude_with_retry: `except (RateLimitError, InternalServerError,
\* APIConnectionError)`
is_retryable(e) == e \in RetryableErrors

\* variant: no attempt is recognised as the last one
is_last_attempt_never(attempt, max_retries) == FALSE

\* variant: the last attempt is recognised one iteration late
is_last_attempt_off_by_one(attempt, max_retries) == attempt = max_retries + 1

\* _call_claude_with_retry: `if attempt == max_retries: raise`
is_last_attempt(attempt, max_retries) == attempt = max_retries

\* variant: the delay triples
next_delay_tripling(delay) == delay * 3

\* variant: linear instead of exponential backoff
next_delay_linear(delay) == delay + 1

\* _call_claude_with_retry: `delay *= 2`
next_delay(delay) == delay * 2

\* an argument that the caller leaves out
Omitted == "omitted"

\* API keys: the constructor's argument may be None, empty or a key; the
\* setting anthropic_api_key is a str, "" unless the environment sets it
CONFIGURED_KEY == "sk-env"
ApiKeyArgs == {NoneStr, "", "sk-arg"}
SettingsKeys == {"", CONFIGURED_KEY}
ModelArgs == {Omitted, NoneStr, "claude-haiku-4-5"}

\* Python truthiness of an optional string
truthy(x) == x \notin {NoneStr, ""}

\* LLMService.__init__: `api_key or settings.anthropic_api_key`
resolve_api_key(api_key, settings_key) ==
  IF truthy(api_key) THEN api_key ELSE settings_key

\* variant: only a missing key is refused, an empty one passes
api_key_missing_only_none(api_key) == api_key = NoneStr

\* LLMService.__init__: `if not self.api_key`
api_key_missing(api_key) == ~truthy(api_key)

\* LLMService.__init__: the parameter `model: str | None = DEFAULT_MODEL`
\* as the body sees it
model_parameter(model_arg) ==
  IF model_arg = Omitted THEN DEFAULT_MODEL ELSE model_arg

\* LLMService.__init__ run for the coroutine r: on success the service
\* holds the key, an open AsyncAnthropic client and `self.model = model`;
\* on failure ValueError is raised before a client is created
construct_service(r, next_pc, failed_pc) ==
  LET key == resolve_api_key(r.api_key_arg, r.settings_key) IN
    IF api_key_missing(key)
    THEN [r EXCEPT !.error = "ValueError", !.pc = failed_pc]
    ELSE [r EXCEPT !.api_key = key,
                   !.client = "open",
                   !.model = model_parameter(r.model_arg),
                   !.pc = next_pc]

(***************************************************************************)
(* Tasks                                                                   *)
(***************************************************************************)
\* the locals of a coroutine that has not run yet
BlankTask ==
  [kind |-> "none", pc |-> "none",
   text |-> <<>>, use_cache |-> TRUE,
   output_format |-> FALSE,
   max_retries |-> DEFAULT_MAX_RETRIES,
   initial_delay |-> DEFAULT_INITIAL_DELAY,
   attempt |-> 0, delay |-> 0,
   calls |-> 0, sleeps |-> <<>>, outcomes |-> <<>>,
   provided |-> None, response |-> None, error |-> NoneStr,
   error_call |-> 0,
   api_key_arg |-> NoneStr, settings_key |-> CONFIGURED_KEY,
   model_arg |-> Omitted,
   api_key |-> NoneStr, client |-> "none",
   model |-> DEFAULT_MODEL,
   request |-> None,
   extractions |-> 0, extraction_result |-> None,
   model_create |-> None, lookups |-> 0, inserts |-> 0,
   http |-> None]

\* a direct call of LLMService._call_claude_with_retry
TransportCalls ==
  {[BlankTask EXCEPT !.kind = "transport", !.pc = "transport",
                     !.output_format = f,
                     !.max_retries = n, !.initial_delay = d] :
     f \in BOOLEAN, n \in (-1)..MaxRetriesArg, d \in 1..MaxDelayArg}

\* a direct call of LLMService.extract_model_data
ExtractCalls ==
  {[BlankTask EXCEPT !.kind = "extract", !.pc = "extract",
                     !.text = s, !.use_cache = c] :
     s \in TextsUpTo(MaxTextLen), c \in BOOLEAN}

\* how the caller constructs the service before the call
ServiceConfigs ==
  [api_key_arg : ApiKeyArgs, settings_key : SettingsKeys,
   model_arg : {Omitted}]
  \cup [api_key_arg : {NoneStr}, settings_key : {CONFIGURED_KEY},
        model_arg : ModelArgs]

\* a caller that constructs LLMService and then makes the call c
ServiceCalls ==
  {[c EXCEPT !.pc = "init",
             !.api_key_arg = cfg.api_key_arg,
             !.settings_key = cfg.settings_key,
             !.model_arg = cfg.model_arg] :
     c \in TransportCalls \cup ExtractCalls, cfg \in ServiceConfigs}

Tasks == DOMAIN task

(***************************************************************************)
(* The provider's call log of a task (what a mock of the client records):  *)
(* the class of the latest outcome, and for the earlier ones whether they  *)
(* were "ok", "transient" or "fatal".                                      *)
(***************************************************************************)
Category(o) ==
  IF o \in {"ok", "transient", "fatal"} THEN o
  ELSE IF o \in RetryableErrors THEN "transient" ELSE "fatal"

Logged(outcomes, o) == Append([i \in 1..Len(outcomes) |-> Category(outcomes[i])], o)

(***************************************************************************)
(* LLMService._call_claude_with_retry                                      *)
(***************************************************************************)
\* Position of a coroutine that is about to run loop iteration `a` of the
\* for loop: inside the loop while a is in range, else the loop is over and
\* the function returns None implicitly.
loop_pc(a, max_retries) ==
  IF a \in attempt_range(max_retries) THEN "call" ELSE "transport_returned"

\* variant: the backoff delay is not a fresh local of the invocation
transport_enter_keeps_delay(r) ==
  [r EXCEPT !.attempt = 0,
            !.response = None,
            !.pc = loop_pc(0, r.max_retries)]

\* entering the function: delay = initial_delay, first loop iteration
transport_enter(r) ==
  [r EXCEPT !.delay = r.initial_delay,
            !.attempt = 0,
            !.response = None,
            !.pc = loop_pc(0, r.max_retries)]

\* the caller constructs the service; then it makes its call
llm_service_init(t) ==
  /\ task[t].pc = "init"
  /\ task' = [task EXCEPT ![t] =
       construct_service(task[t],
                         IF task[t].kind = "transport" THEN "transport"
                                                       ELSE "extract",
                         "init_raised")]
  /\ UNCHANGED <<db, id_seq>>

\* a direct caller invokes the transport
call_claude_with_retry(t) ==
  /\ task[t].pc = "transport"
  /\ task' = [task EXCEPT ![t] = transport_enter(task[t])]
  /\ UNCHANGED <<db, id_seq>>

\* variant: the transport returns nothing after a call that succeeded
returned_response_dropped(resp) == None

\* _call_claude_with_retry: `return response`, the object the client gave
returned_response(resp) == resp

\* the provider answers the awaited call with a response
provider_returns(t) ==
  /\ task[t].pc = "call"
  /\ \E resp \in (IF task[t].output_format THEN ParsedResponses
                                            ELSE PlainResponses) :
       task' = [task EXCEPT ![t].calls = @ + 1,
                            ![t].outcomes = Logged(@, "ok"),
                            ![t].provided = resp,
                            ![t].response = returned_response(resp),
                            ![t].pc = "transport_returned"]
  /\ UNCHANGED <<db, id_seq>>

\* variant: the caught exception is wrapped in a generic APIError
raised_error_wrapped(e) == "APIError"

\* _call_claude_with_retry: the bare `raise` in both except clauses
\* re-raises the caught exception object itself
raised_error(e) == e

\* variant: the exception of the first failed call is kept and raised
raised_call_first(call) == 1

\* the exception a bare `raise` re-raises is the one bound by the enclosing
\* except clause: that of the provider call of this loop iteration
raised_call(call) == call

\* the awaited provider call raises e; the except clauses decide whether e
\* is handled (warning, then sleep) or raised to the caller
provider_raises(t) ==
  /\ task[t].pc = "call"
  /\ \E e \in ProviderErrors :
       task' = [task EXCEPT
         ![t].calls = @ + 1,
         ![t].outcomes = Logged(@, e),
         ![t].error =
           IF is_retryable(e)
              /\ ~is_last_attempt(task[t].attempt, task[t].max_retries)
           THEN e ELSE raised_error(e),
         ![t].error_call =
           IF is_retryable(e)
              /\ ~is_last_attempt(task[t].attempt, task[t].max_retries)
           THEN task[t].calls + 1 ELSE raised_call(task[t].calls + 1),
         ![t].pc =
           IF is_retryable(e)
              /\ ~is_last_attempt(task[t].attempt, task[t].max_retries)
           THEN "sleep" ELSE "transport_raised"]
  /\ UNCHANGED <<db, id_seq>>

\* asyncio.sleep(delay) completes; delay doubles; the except clause ends
\* (e is unbound) and the next loop iteration starts
backoff_sleep(t) ==
  /\ task[t].pc = "sleep"
  /\ task' = [task EXCEPT
       ![t].sleeps = Append(@, task[t].delay),
       ![t].error = NoneStr,
       ![t].error_call = 0,
       ![t].delay = next_delay(task[t].delay),
       ![t].attempt = @ + 1,
       ![t].pc = loop_pc(task[t].attempt + 1, task[t].max_retries)]
  /\ UNCHANGED <<db, id_seq>>

\* The task is cancelled while it awaits the provider call or the sleep:
\* the await raises asyncio.CancelledError, a BaseException, which none of
\* the except clauses on the way up (the provider's error classes, APIError,
\* Exception, ValueError) catches, so the coroutine ends there.  Nothing on
\* that path calls LLMService.close(), the client stays as it is.
task_cancelled(t) ==
  /\ task[t].pc \in {"call", "sleep"}
  /\ task' = [task EXCEPT ![t].error = "CancelledError",
                          ![t].pc = "cancelled"]
  /\ UNCHANGED <<db, id_seq>>

(***************************************************************************)
(* LLMService.extract_model_data                                           *)
(***************************************************************************)
\* variant: the cached input tokens are counted too
make_extraction_result_counting_cache(response, model) ==
  [data |-> response.parsed_output,
   tokens_used |-> response.usage.input_tokens + response.usage.output_tokens
                     + response.usage.cache_creation_input_tokens
                     + response.usage.cache_read_input_tokens,
   model_used |-> model]

\* ExtractionResult(data=..., tokens_used=..., model_used=self.model)
make_extraction_result(response, model) ==
  [data |-> response.parsed_output,
   tokens_used |-> response.usage.input_tokens + response.usage.output_tokens,
   model_used |-> model]

\* ExtractionResult validates on construction: `model_used: str` rejects None
extraction_result_is_valid(er) == er.model_used # NoneStr

SYSTEM_PROMPT == "You are a data extraction assistant for an AI Model Catalogue database."
USER_PROMPT_PREFIX == "Extract model information from this text:"
DEFAULT_MAX_TOKENS == 4096

\* variant: without caching a shortened instruction is sent
system_blocks_short_when_uncached(use_cache) ==
  IF use_cache
  THEN <<[type |-> "text", text |-> SYSTEM_PROMPT,
          cache_control |-> [type |-> "ephemeral"]]>>
  ELSE <<[type |-> "text", text |-> "You are a data extraction assistant."]>>

\* extract_model_data: the system instruction block, with the key
\* cache_control only if use_cache
system_blocks(use_cache) ==
  IF use_cache
  THEN <<[type |-> "text", text |-> SYSTEM_PROMPT,
          cache_control |-> [type |-> "ephemeral"]]>>
  ELSE <<[type |-> "text", text |-> SYSTEM_PROMPT]>>

\* extract_model_data: the single user message, the prefix followed by text
user_messages(text) ==
  <<[role |-> "user", content |-> <<USER_PROMPT_PREFIX, text>>]>>

\* the keyword arguments of client.beta.messages.parse for this extraction
parse_request(r) ==
  [model |-> r.model,
   max_tokens |-> DEFAULT_MAX_TOKENS,
   system |-> system_blocks(r.use_cache),
   messages |-> user_messages(r.text),
   output_format |-> "ExtractedModel"]

\* the guard on the text, then the call of the transport with
\* output_format=ExtractedModel and the default retry parameters
extract_model_data_enter(t) ==
  /\ task[t].pc = "extract"
  /\ task' = [task EXCEPT ![t] =
       IF text_is_empty(task[t].text)
       THEN [task[t] EXCEPT !.extractions = @ + 1,
                            !.error = "ValueError",
                            !.pc = "extract_raised"]
       ELSE transport_enter(
              [task[t] EXCEPT !.extractions = @ + 1,
                              !.request = parse_request(task[t]),
                              !.output_format = TRUE,
                              !.max_retries = DEFAULT_MAX_RETRIES,
                              !.initial_delay = DEFAULT_INITIAL_DELAY])]
  /\ UNCHANGED <<db, id_seq>>

\* variant: the orchestrator reports the transport's failure as a ValueError
propagated_error_as_value_error(e) == "ValueError"

\* extract_model_data: `except Exception as e: logger.error(...); raise`
propagated_error(e) == e

\* `except Exception as e: ... raise`: the transport's error, unchanged
extract_model_data_propagates(t) ==
  /\ task[t].kind # "transport"
  /\ task[t].pc = "transport_raised"
  /\ task' = [task EXCEPT ![t].error = propagated_error(task[t].error),
                          ![t].pc = "extract_raised"]
  /\ UNCHANGED <<db, id_seq>>

\* variant: the orchestrator itself rejects a response without payload
after_transport_returned_rejecting(r) ==
  IF r.response = None
  THEN [r EXCEPT !.error = "AttributeError", !.pc = "extract_raised"]
  ELSE IF r.response.parsed_output = None
  THEN [r EXCEPT !.error = "ValueError", !.pc = "extract_raised"]
  ELSE IF ~extraction_result_is_valid(make_extraction_result(r.response, r.model))
  THEN [r EXCEPT !.error = "ValidationError", !.pc = "extract_raised"]
  ELSE [r EXCEPT
          !.extraction_result = make_extraction_result(r.response, r.model),
          !.pc = "extracted"]

\* the code after the transport returned: read parsed_output and usage,
\* build the result.  (A transport that returned None makes
\* `response.parsed_output` raise AttributeError.)
after_transport_returned(r) ==
  IF r.response = None
  THEN [r EXCEPT !.error = "AttributeError", !.pc = "extract_raised"]
  ELSE IF ~extraction_result_is_valid(make_extraction_result(r.response, r.model))
  THEN [r EXCEPT !.error = "ValidationError", !.pc = "extract_raised"]
  ELSE [r EXCEPT
          !.extraction_result = make_extraction_result(r.response, r.model),
          !.pc = "extracted"]

extract_model_data_returns(t) ==
  /\ task[t].kind # "transport"
  /\ task[t].pc = "transport_returned"
  /\ task' = [task EXCEPT ![t] = after_transport_returned(task[t])]
  /\ UNCHANGED <<db, id_seq>>

(***************************************************************************)
(* Direct use of the service (as the unit tests of LLMService do):         *)
(* one coroutine calling the transport or the orchestrator.                *)
(***************************************************************************)
InitService ==
  /\ task \in [{"t1"} -> ServiceCalls]
  /\ db = {}
  /\ id_seq = 0

NextService ==
  \E t \in Tasks :
    \/ llm_service_init(t)
    \/ call_claude_with_retry(t)
    \/ provider_returns(t)
    \/ provider_raises(t)
    \/ backoff_sleep(t)
    \/ task_cancelled(t)
    \/ extract_model_data_enter(t)
    \/ extract_model_data_propagates(t)
    \/ extract_model_data_returns(t)

SpecService == InitService /\ [][NextService]_vars

\* The same, on an event loop that keeps running: an awaited provider call
\* gets its answer (a response or an exception) and an awaited
\* asyncio.sleep returns, unless the task is cancelled first.
ServiceTaskIds == {"t1"}

FairService ==
  \A t \in ServiceTaskIds :
    /\ WF_vars(provider_returns(t) \/ provider_raises(t))
    /\ WF_vars(backoff_sleep(t))

SpecServiceFair == SpecService /\ FairService

(***************************************************************************)
(* Two runs of extract_model_data side by side, on the same text and the   *)
(* same service configuration, one with and one without use_cache; each    *)
(* run meets its own provider behaviour.                                   *)
(***************************************************************************)
PairTexts == {<<"a">>, <<" ">>}

PairRun(text, use_cache, model_arg) ==
  construct_service(
    [BlankTask EXCEPT !.kind = "extract", !.text = text,
                      !.use_cache = use_cache, !.model_arg = model_arg],
    "extract", "init_raised")

InitCachePair ==
  /\ \E s \in PairTexts, m \in ModelArgs :
       task = [c \in {"cached", "uncached"} |->
                 PairRun(s, c = "cached", m)]
  /\ db = {}
  /\ id_seq = 0

NextCachePair ==
  \E t \in Tasks :
    \/ extract_model_data_enter(t)
    \/ provider_returns(t)
    \/ provider_raises(t)
    \/ backoff_sleep(t)
    \/ task_cancelled(t)
    \/ extract_model_data_propagates(t)
    \/ extract_model_data_returns(t)

SpecCachePair == InitCachePair /\ [][NextCachePair]_vars

(***************************************************************************)
(* The catalogue: the models table                                         *)
(***************************************************************************)
\* a row of the table `models` built from a ModelCreate
model_row(id, mc) ==
  [id |-> id,
   name |-> mc.name,
   display_name |-> mc.display_name,
   organization |-> mc.organization,
   release_date |-> mc.release_date,
   description |-> mc.description,
   license |-> mc.license]

\* variant: the lookup never finds a row
get_by_name_finds_nothing(rows, name) == None

\* ModelRepository.get_by_name: `select(Model).where(Model.name == name)`,
\* `.first()`: a row with that name or None
get_by_name(rows, name) ==
  IF \E r \in rows : r.name = name
  THEN CHOOSE r \in rows : r.name = name
  ELSE None

\* variant: the column is declared without unique=True
violates_unique_name_no_index(rows, name) == FALSE

\* ModelBase.name: Field(unique=True): the unique index rejects the INSERT
\* of a second row with a name the table holds
violates_unique_name(rows, name) == \E r \in rows : r.name = name

(***************************************************************************)
(* Extraction helpers                                                      *)
(***************************************************************************)
\* variant: the guard lets absent data through
no_data_extracted_unchecked(extracted) == FALSE

\* validate_extracted_data: `if extracted is None: raise HTTPException(400)`
no_data_extracted(extracted) == extracted = None

\* variant: the display name is left out instead of mirroring model_name
convert_extracted_to_create_no_display_name(extracted) ==
  [name |-> extracted.model_name,
   display_name |-> NoneStr,
   organization |-> extracted.organization,
   release_date |-> extracted.release_date,
   description |-> extracted.description,
   license |-> extracted.license]

\* convert_extracted_to_create: the keyword arguments given to ModelCreate
convert_extracted_to_create(extracted) ==
  [name |-> extracted.model_name,
   display_name |-> extracted.model_name,
   organization |-> extracted.organization,
   release_date |-> extracted.release_date,
   description |-> extracted.description,
   license |-> extracted.license]

\* ModelCreate validates its fields on construction: ModelBase declares
\* `organization: str`, which rejects None
model_create_is_valid(mc) == mc.organization # NoneStr

(***************************************************************************)
(* HTTP responses                                                          *)
(***************************************************************************)
http_error(status_code, detail) ==
  [status_code |-> status_code, detail |-> detail]

DETAIL_NO_DATA == "No model information could be extracted from the provided text."
DETAIL_EMPTY == "Input text for extraction cannot be empty"
DETAIL_EXTRACT_FAILED == "Failed to extract model information from text"
DETAIL_EXISTS == "Model already exists"
DETAIL_CREATE_FAILED == "Failed to create model"
DETAIL_TOO_SHORT == "String should have at least 10 characters"
DETAIL_UNHANDLED == "Internal Server Error"

(***************************************************************************)
(* POST /api/v1/extract: extract_and_create_model                          *)
(***************************************************************************)
\* variant: only the empty body text is refused
text_too_short_only_empty(text) == Len(text) = 0

\* ExtractRequest.text: `min_length=10`
text_too_short(text) == Len(text) < MIN_TEXT_LENGTH

\* Before the handler runs FastAPI resolves `Depends(LLMService)`, which
\* constructs a service of its own for this request (an exception of the
\* constructor ends the request with a plain 500), and validates the body
\* against ExtractRequest
receive_extract_request(t) ==
  /\ task[t].pc = "request"
  /\ task' = [task EXCEPT ![t] =
       LET r == construct_service(task[t], "extract", "done") IN
         IF r.pc = "done"
         THEN [r EXCEPT !.http = http_error(500, DETAIL_UNHANDLED)]
         ELSE IF text_too_short(r.text)
         THEN [r EXCEPT !.http = http_error(422, DETAIL_TOO_SHORT),
                        !.pc = "done"]
         ELSE r]
  /\ UNCHANGED <<db, id_seq>>

\* the 500 of step 1: the detail is the fixed prefix followed by str(e)
http_error_with_message(status_code, detail, message) ==
  [status_code |-> status_code, detail |-> detail, message |-> message]

\* str(e): the ValueError of the empty-text check carries its message, the
\* other exceptions are identified by their class
exception_message(e) == IF e = "ValueError" THEN DETAIL_EMPTY ELSE e

\* variant: every exception is taken for a ValueError
is_value_error_any_exception(e) == TRUE

\* `except ValueError`: ValueError and its subclasses (pydantic's
\* ValidationError is one)
is_value_error(e) == e \in {"ValueError", "ValidationError"}

\* step 1, the except clauses: ValueError -> 400, any other Exception -> 500
extraction_failed(t) ==
  /\ task[t].kind = "endpoint"
  /\ task[t].pc = "extract_raised"
  /\ task' = [task EXCEPT
       ![t].http =
         IF is_value_error(task[t].error)
         THEN http_error(400, exception_message(task[t].error))
         ELSE http_error_with_message(500, DETAIL_EXTRACT_FAILED,
                                      exception_message(task[t].error)),
       ![t].pc = "done"]
  /\ UNCHANGED <<db, id_seq>>

\* step 2: validate_extracted_data(extraction_result.data)
validate_extracted_data(t) ==
  /\ task[t].kind = "endpoint"
  /\ task[t].pc = "extracted"
  /\ task' = [task EXCEPT ![t] =
       IF no_data_extracted(task[t].extraction_result.data)
       THEN [task[t] EXCEPT !.http = http_error(400, DETAIL_NO_DATA),
                            !.pc = "done"]
       ELSE [task[t] EXCEPT !.pc = "convert"]]
  /\ UNCHANGED <<db, id_seq>>

\* step 3: model_create = convert_extracted_to_create(extraction_result.data);
\* an exception here (attribute access on None, ModelCreate's validation) is
\* not caught by the handler and ends the request with a plain 500
convert_step(t) ==
  /\ task[t].kind = "endpoint"
  /\ task[t].pc = "convert"
  /\ LET extracted == task[t].extraction_result.data
         ok == /\ extracted # None
               /\ model_create_is_valid(convert_extracted_to_create(extracted))
     IN task' = [task EXCEPT ![t] =
          IF ok
          THEN [task[t] EXCEPT
                  !.model_create = convert_extracted_to_create(extracted),
                  !.pc = "lookup"]
          ELSE [task[t] EXCEPT
                  !.error = IF extracted = None THEN "AttributeError"
                                                ELSE "ValidationError",
                  !.http = http_error(500, DETAIL_UNHANDLED),
                  !.pc = "done"]]
  /\ UNCHANGED <<db, id_seq>>

(***************************************************************************)
(* POST /api/v1/models/: create_model (also step 4 of the extraction)      *)
(***************************************************************************)
\* the body of the 201 response: of create_model the created row, of the
\* extraction the row with the outcome's token count and model identifier
created_response(r, created) ==
  IF r.kind = "endpoint"
  THEN [status_code |-> 201,
        model |-> created,
        tokens_used |-> r.extraction_result.tokens_used,
        llm_model |-> r.extraction_result.model_used]
  ELSE [status_code |-> 201, model |-> created]

\* variant: the result of the lookup is not looked at
existing_found_ignored(existing) == FALSE

\* create_model: `if existing:`
existing_found(existing) == existing # None

\* `existing = await repo.get_by_name(model_data.name)`; 409 if it exists
create_model_lookup(t) ==
  /\ task[t].pc = "lookup"
  /\ LET existing == get_by_name(db, task[t].model_create.name)
     IN task' = [task EXCEPT ![t] =
          IF existing_found(existing)
          THEN [task[t] EXCEPT !.lookups = @ + 1,
                               !.http = http_error(409, DETAIL_EXISTS),
                               !.pc = "done"]
          ELSE [task[t] EXCEPT !.lookups = @ + 1,
                               !.pc = "insert"]]
  /\ UNCHANGED <<db, id_seq>>

\* `created = await repo.create(new_model)`: session.add, commit, refresh.
\* The INSERT draws the next id from the sequence; the unique index makes
\* the commit fail (IntegrityError), which `except Exception` turns into 500.
create_model_insert(t) ==
  /\ task[t].pc = "insert"
  /\ id_seq' = id_seq + 1
  /\ LET row == model_row(id_seq + 1, task[t].model_create)
     IN IF violates_unique_name(db, row.name)
        THEN /\ db' = db
             /\ task' = [task EXCEPT
                  ![t].inserts = @ + 1,
                  ![t].error = "IntegrityError",
                  ![t].http = http_error(500, DETAIL_CREATE_FAILED),
                  ![t].pc = "done"]
        ELSE /\ db' = db \cup {row}
             /\ task' = [task EXCEPT
                  ![t].inserts = @ + 1,
                  ![t].http = created_response(task[t], row),
                  ![t].pc = "done"]

(***************************************************************************)
(* The API: two concurrent requests against one catalogue                  *)
(***************************************************************************)
\* request bodies of POST /api/v1/extract: long enough and usable, long
\* enough and blank, too short
ExtractTexts ==
  {Repeat("a", MIN_TEXT_LENGTH),
   Repeat(" ", MIN_TEXT_LENGTH),
   Repeat("a", MIN_TEXT_LENGTH - 1)}

ExtractRequests ==
  {[BlankTask EXCEPT !.kind = "endpoint", !.pc = "request", !.text = s] :
     s \in ExtractTexts}

\* valid bodies of POST /api/v1/models/
ModelCreates ==
  [name : ModelNames,
   display_name : {"GPT-4"},
   organization : {"OpenAI"},
   release_date : {NoneStr},
   description : {NoneStr},
   license : {NoneStr}]

CreateRequests ==
  {[BlankTask EXCEPT !.kind = "create", !.pc = "lookup", !.model_create = mc] :
     mc \in ModelCreates}

\* the catalogue before the requests arrive: empty, or holding one model
SeedRow ==
  [id |-> 1, name |-> "gpt-4", display_name |-> "GPT-4",
   organization |-> "OpenAI", release_date |-> "2023-03-14",
   description |-> NoneStr, license |-> NoneStr]

Requests == {"r1", "r2"}

InitApi ==
  /\ task \in [Requests -> ExtractRequests \cup CreateRequests]
  /\ \/ db = {} /\ id_seq = 0
     \/ db = {SeedRow} /\ id_seq = 1

NextApi ==
  \E t \in Tasks :
    \/ receive_extract_request(t)
    \/ extract_model_data_enter(t)
    \/ provider_returns(t)
    \/ provider_raises(t)
    \/ backoff_sleep(t)
    \/ task_cancelled(t)
    \/ extract_model_data_propagates(t)
    \/ extract_model_data_returns(t)
    \/ extraction_failed(t)
    \/ validate_extracted_data(t)
    \/ convert_step(t)
    \/ create_model_lookup(t)
    \/ create_model_insert(t)

SpecApi == InitApi /\ [][NextApi]_vars

(***************************************************************************)
(* Properties                                                              *)
(***************************************************************************)
Last(seq) == seq[Len(seq)]

RECURSIVE Pow2(_)
Pow2(n) == IF n = 0 THEN 1 ELSE 2 * Pow2(n - 1)

\* every provider call of the log failed with a transient error
AllTransient(outcomes) ==
  \A i \in 1..Len(outcomes) : Category(outcomes[i]) = "transient"

\* the text consists of whitespace only (or of nothing)
Blank(text) == \A i \in 1..Len(text) : text[i] \in Whitespace

\* the coroutine is still inside the retry loop of the transport
InRetryLoop(r) == r.pc \in {"call", "sleep"}

\* the transport has raised its failure to the caller
FailurePropagated(r) == r.pc \in {"transport_raised", "extract_raised", "done"}

\* C1 - Retry bound: with max_retries = N >= 0, while every provider call
\* fails transiently the provider is called at most N+1 times, the transport
\* stays in its retry loop until the call N+1 (unless its task is cancelled
\* there), and on the call N+1 (and only then) the failure propagates to the
\* caller.
RetryBound ==
  \A t \in Tasks :
    LET r == task[t] IN
      (r.max_retries >= 0 /\ r.outcomes # <<>> /\ AllTransient(r.outcomes)) =>
        /\ r.calls = Len(r.outcomes)
        /\ r.calls <= r.max_retries + 1
        /\ r.calls < r.max_retries + 1 => InRetryLoop(r) \/ r.pc = "cancelled"
        /\ r.calls = r.max_retries + 1 =>
             FailurePropagated(r) /\ r.error = Last(r.outcomes)

RetryBoundWitness ==
  \E t \in Tasks :
    /\ task[t].kind = "transport"
    /\ task[t].max_retries = MaxRetriesArg
    /\ AllTransient(task[t].outcomes)
    /\ task[t].calls = MaxRetriesArg + 1
    /\ task[t].pc = "transport_raised"

\* C2 - No retry on non-transient failure: when provider call k (after k-1
\* transient failures) fails with a non-transient error, that error is
\* propagated at once: k calls in total, k-1 delays (none after the failing
\* call), and the transport has left its retry loop.
NoRetryOnNonTransient ==
  \A t \in Tasks :
    LET r == task[t] IN
      (r.outcomes # <<>> /\ Category(Last(r.outcomes)) = "fatal") =>
        /\ FailurePropagated(r)
        /\ r.error = Last(r.outcomes)
        /\ r.calls = Len(r.outcomes)
        /\ Len(r.sleeps) = r.calls - 1
        /\ AllTransient(SubSeq(r.outcomes, 1, Len(r.outcomes) - 1))

NoRetryOnNonTransientWitness ==
  \E t \in Tasks :
    /\ task[t].kind = "transport"
    /\ task[t].calls = 3
    /\ Last(task[t].outcomes) = "BadRequestError"
    /\ task[t].pc = "transport_raised"

\* C3 - Exponential backoff: while every provider call fails transiently,
\* delay number k is initial_delay * 2^(k-1), every call after the first is
\* preceded by exactly one delay, and after the last failed call (N+1) no
\* delay is taken: exactly N delays [d, 2d, ..., d*2^(N-1)].
ExponentialBackoff ==
  \A t \in Tasks :
    LET r == task[t] IN
      (r.max_retries >= 0 /\ r.outcomes # <<>> /\ AllTransient(r.outcomes)) =>
        /\ \A k \in 1..Len(r.sleeps) :
             r.sleeps[k] = r.initial_delay * Pow2(k - 1)
        /\ r.pc = "sleep" => Len(r.sleeps) = r.calls - 1
        /\ r.pc = "call" => Len(r.sleeps) = r.calls
        /\ r.calls = r.max_retries + 1 =>
             Len(r.sleeps) = r.max_retries /\ r.pc # "sleep"

ExponentialBackoffWitness ==
  \E t \in Tasks :
    /\ task[t].kind = "transport"
    /\ task[t].max_retries = MaxRetriesArg
    /\ task[t].initial_delay = MaxDelayArg
    /\ AllTransient(task[t].outcomes)
    /\ Len(task[t].sleeps) = MaxRetriesArg
    /\ task[t].pc = "transport_raised"

\* C4 - Empty-input rejection: extract_model_data on an empty or
\* whitespace-only text raises ValueError and never calls the provider.
EmptyInputRejection ==
  \A t \in Tasks :
    LET r == task[t] IN
      (r.kind = "extract" /\ Blank(r.text)) =>
        /\ r.calls = 0
        /\ r.outcomes = <<>>
        /\ r.pc \in {"init", "init_raised", "extract", "extract_raised"}
        /\ r.pc = "extract_raised" => r.error = "ValueError"

EmptyInputRejectionWitness ==
  \E t \in Tasks :
    /\ task[t].kind = "extract"
    /\ Len(task[t].text) = MaxTextLen
    /\ Blank(task[t].text)
    /\ task[t].pc = "extract_raised"
    /\ task[t].error = "ValueError"
    /\ task[t].calls = 0

\* the extraction of the request returned an outcome that carries data
ExtractedData(r) ==
  r.extraction_result # None /\ r.extraction_result.data # None

\* the extraction of the request returned an outcome without data
ExtractedNothing(r) ==
  r.extraction_result # None /\ r.extraction_result.data = None

\* the request has been answered with this status code
Answered(r, status_code) ==
  r.pc = "done" /\ r.http # None /\ r.http.status_code = status_code

\* C5 - Concurrent duplicate race (as claimed): of two extraction requests
\* that extracted the same model_name, absent from the catalogue before,
\* one is answered 201 and the other 409, whatever the interleaving.
RaceLoserGetsConflict ==
  \A a, b \in Tasks :
    LET ra == task[a]  rb == task[b] IN
      ( /\ a # b
        /\ ra.kind = "endpoint" /\ rb.kind = "endpoint"
        /\ ra.pc = "done" /\ rb.pc = "done"
        /\ ra.model_create # None /\ rb.model_create # None
        /\ ra.model_create.name = rb.model_create.name
        /\ ~(SeedRow \in db /\ SeedRow.name = ra.model_create.name) ) =>
      {ra.http.status_code, rb.http.status_code} = {201, 409}

\* C6 - Name uniqueness: the catalogue never holds two rows with one name.
NameUnique ==
  \A x, y \in db : x.name = y.name => x = y

\* two requests inserted the same name and the index turned one of them down
NameUniqueWitness ==
  \E a, b \in Tasks :
    /\ a # b
    /\ task[a].kind = "endpoint" /\ task[b].kind = "create"
    /\ task[a].inserts = 1 /\ task[b].inserts = 1
    /\ task[a].model_create.name = task[b].model_create.name
    /\ task[a].pc = "done" /\ task[b].pc = "done"
    /\ \E x \in db : x.name = task[a].model_create.name

\* C7 - Scenario B: when the name lookup of an extraction request runs while
\* the catalogue holds the extracted name, the request ends with 409 in that
\* step, has not inserted and never will, and the catalogue is unchanged.
DuplicateIsConflict ==
  [][\A t \in Tasks :
       ( /\ task[t].kind = "endpoint"
         /\ task[t].pc = "lookup"
         /\ task'[t] # task[t]
         /\ \E x \in db : x.name = task[t].model_create.name ) =>
       ( /\ task'[t].pc = "done"
         /\ task'[t].http = http_error(409, DETAIL_EXISTS)
         /\ task'[t].lookups = 1
         /\ task'[t].inserts = 0
         /\ db' = db )]_vars

DuplicateIsConflictWitness ==
  \E t \in Tasks :
    /\ task[t].kind = "endpoint"
    /\ ExtractedData(task[t])
    /\ Answered(task[t], 409)
    /\ task[t].inserts = 0
    /\ \E x \in db : x.name = task[t].extraction_result.data.model_name

\* C8 - Scenario C: an extraction request whose outcome has no data ends
\* with 400 "No model information could be extracted"; it never looks a
\* name up and never inserts.
NoDataIsClientError ==
  \A t \in Tasks :
    LET r == task[t] IN
      (r.kind = "endpoint" /\ ExtractedNothing(r)) =>
        /\ r.lookups = 0
        /\ r.inserts = 0
        /\ r.model_create = None
        /\ r.pc \in {"extracted", "done"}
        /\ r.pc = "done" => r.http = http_error(400, DETAIL_NO_DATA)

NoDataIsClientErrorWitness ==
  \E t \in Tasks :
    /\ task[t].kind = "endpoint"
    /\ ExtractedNothing(task[t])
    /\ Answered(task[t], 400)

\* C9 - Scenario A (as claimed): an extraction request whose outcome carries
\* data with a name no other row of the catalogue has ends with one
\* extraction, one lookup, one insert and a 201 response carrying the
\* created row, the outcome's tokens_used and its model identifier.
NewModelIsCreated ==
  \A t \in Tasks :
    LET r == task[t] IN
      ( /\ r.kind = "endpoint"
        /\ r.pc = "done"
        /\ ExtractedData(r)
        /\ \A x \in db :
             x.name = r.extraction_result.data.model_name =>
               r.http = created_response(r, x) ) =>
      ( /\ r.extractions = 1
        /\ r.lookups = 1
        /\ r.inserts = 1
        /\ r.http.status_code = 201
        /\ r.http.model \in db
        /\ r.http.model.name = r.extraction_result.data.model_name
        /\ r.http.tokens_used = r.extraction_result.tokens_used
        /\ r.http.llm_model = r.extraction_result.model_used )

\* C10 - Absent-data pass-through: a provider response without payload makes
\* extract_model_data return an outcome with data absent, tokens_used and
\* model_used set, and no error; the 400 "no model information" response
\* exists only after such an outcome was returned.
AbsentDataPassThrough ==
  \A t \in Tasks :
    LET r == task[t] IN
      /\ ( /\ r.kind # "transport"
           /\ r.response # None
           /\ r.response.parsed_output = None
           /\ r.pc # "transport_returned" ) =>
         ( /\ r.pc \in {"extracted", "done"}
           /\ r.error = NoneStr
           /\ r.extraction_result =
                [data |-> None,
                 tokens_used |-> r.response.usage.input_tokens
                                   + r.response.usage.output_tokens,
                 model_used |-> r.model]
           /\ r.pc = "extracted" => r.http = None )
      /\ r.http = http_error(400, DETAIL_NO_DATA) =>
           r.pc = "done" /\ ExtractedNothing(r)

AbsentDataPassThroughWitness ==
  \E t \in Tasks :
    /\ task[t].kind = "endpoint"
    /\ task[t].response # None
    /\ task[t].response.parsed_output = None
    /\ task[t].pc = "extracted"
    /\ task[t].extraction_result.data = None
    /\ task[t].extraction_result.tokens_used = 650

\* C11 - Token accounting: whenever extract_model_data has returned an
\* outcome, with or without use_cache, its tokens_used is input_tokens +
\* output_tokens of the transport's response (the cache counters are not
\* added) and is not negative.
TokenAccounting ==
  \A t \in Tasks :
    LET r == task[t] IN
      r.extraction_result # None =>
        /\ r.response # None
        /\ r.extraction_result.tokens_used =
             r.response.usage.input_tokens + r.response.usage.output_tokens
        /\ r.extraction_result.tokens_used >= 0

TokenAccountingWitness ==
  \E t \in Tasks :
    /\ task[t].kind = "extract"
    /\ ~task[t].use_cache
    /\ task[t].pc = "extracted"
    /\ task[t].response.usage.input_tokens = 500
    /\ task[t].response.usage.output_tokens = 150
    /\ task[t].response.usage.cache_read_input_tokens > 0
    /\ task[t].extraction_result.tokens_used = 650

\* the transport gave up: max_retries + 1 calls, all failed transiently
Exhausted(r) ==
  /\ r.max_retries >= 0
  /\ r.calls = r.max_retries + 1
  /\ AllTransient(r.outcomes)
  /\ FailurePropagated(r)

\* the failure taxonomy the specification gives the core
CoreFailureTags == {"InvalidInput", "ExhaustedRetries", "UpstreamRejected"}

\* C12 - Exhaustion tagging (as claimed): the error delivered after
\* max_retries + 1 transient failures carries one of the core's own tags.
ExhaustionIsTagged ==
  \A t \in Tasks : Exhausted(task[t]) => task[t].error \in CoreFailureTags

\* C12 (amended) - the error delivered after max_retries + 1 transient
\* failures is the provider's exception of the last call, re-raised as it
\* is: one of RateLimitError, InternalServerError, APIConnectionError, never
\* a tag of the core; an immediately propagated non-transient failure is the
\* provider's exception too, and only the exception class tells them apart.
ExhaustionRaisesProviderError ==
  \A t \in Tasks :
    LET r == task[t] IN
      /\ Exhausted(r) =>
           /\ r.error \in RetryableErrors
           /\ r.error = Last(r.outcomes)
           /\ r.error \notin CoreFailureTags
      /\ ( /\ FailurePropagated(r)
           /\ r.outcomes # <<>>
           /\ Category(Last(r.outcomes)) = "fatal" ) =>
           /\ r.error \in OtherAPIErrors
           /\ r.error = Last(r.outcomes)

ExhaustionRaisesProviderErrorWitness ==
  \E t \in Tasks :
    /\ task[t].kind = "extract"
    /\ Exhausted(task[t])
    /\ task[t].pc = "extract_raised"
    /\ task[t].error = "InternalServerError"

\* the extraction request has passed step 3 with extracted data in hand
Converted(r) ==
  /\ r.kind = "endpoint"
  /\ r.pc \in {"lookup", "insert", "done"}
  /\ r.extraction_result # None
  /\ r.extraction_result.data # None
  /\ ~no_data_extracted(r.extraction_result)

\* C13 - Mapping fidelity: whenever convert_extracted_to_create has returned
\* in an extraction request, the create request has name = model_name,
\* display_name = model_name, and organization, release_date, description
\* and license equal to the extracted values.
MappingFidelity ==
  \A t \in Tasks :
    LET r == task[t] IN
      (r.kind = "endpoint" /\ r.model_create # None) =>
        /\ r.extraction_result # None
        /\ r.extraction_result.data # None
        /\ LET x == r.extraction_result.data
               mc == r.model_create
           IN /\ mc.name = x.model_name
              /\ mc.display_name = x.model_name
              /\ mc.organization = x.organization
              /\ mc.release_date = x.release_date
              /\ mc.description = x.description
              /\ mc.license = x.license

MappingFidelityWitness ==
  \E t \in Tasks :
    /\ task[t].kind = "endpoint"
    /\ task[t].model_create # None
    /\ task[t].model_create.display_name = "gpt-4"
    /\ task[t].model_create.release_date = "2023-03-14"
    /\ task[t].extraction_result.data.model_name = "gpt-4"

\* C14 - Totality of the mapping (as claimed): every extraction request that
\* reached step 3 with a valid extracted record, whatever fields of
\* organization, release_date and license are absent, has got its create
\* request and has not failed in the conversion.
MappingIsTotal ==
  \A t \in Tasks :
    Converted(task[t]) =>
      /\ task[t].model_create # None
      /\ task[t].error # "ValidationError"

\* the extraction request was answered from the except clauses of step 1
ExtractionRaised(r) ==
  /\ r.kind = "endpoint"
  /\ r.pc = "done"
  /\ r.extractions = 1
  /\ r.extraction_result = None

\* C15 - Extraction error mapping: an extraction request whose
\* extract_model_data raised is answered 400 exactly when the text was empty
\* or whitespace (the local validation failure, with no provider call made),
\* and 500 with the failure's message in the detail when the provider failed
\* (transient failures exhausted, or a non-transient failure); either way
\* the catalogue was neither read nor written.
ExtractionErrorMapping ==
  \A t \in Tasks :
    LET r == task[t] IN
      ExtractionRaised(r) =>
        /\ r.http # None
        /\ r.http.status_code \in {400, 500}
        /\ r.http.status_code = 400 <=> Blank(r.text)
        /\ r.http.status_code = 400 <=> r.calls = 0
        /\ r.http.status_code = 400 => r.http.detail = DETAIL_EMPTY
        /\ r.http.status_code = 500 =>
             /\ r.outcomes # <<>>
             /\ Last(r.outcomes) \in ProviderErrors
             /\ r.http.detail = DETAIL_EXTRACT_FAILED
             /\ r.http.message = Last(r.outcomes)
             /\ \/ Last(r.outcomes) \in OtherAPIErrors
                \/ AllTransient(r.outcomes) /\ r.calls = r.max_retries + 1
        /\ r.lookups = 0
        /\ r.inserts = 0
        /\ r.model_create = None

ExtractionErrorMappingWitness ==
  /\ \E t \in Tasks :
       /\ ExtractionRaised(task[t])
       /\ Answered(task[t], 500)
       /\ task[t].http.message = "RateLimitError"
       /\ task[t].calls = DEFAULT_MAX_RETRIES + 1
  /\ \E t \in Tasks :
       /\ ExtractionRaised(task[t])
       /\ Answered(task[t], 400)
       /\ Len(task[t].text) >= MIN_TEXT_LENGTH

\* the constructor of the service has returned an instance
ServiceExists(r) == r.client # "none"

\* C16 - Configuration error: constructing the service with no API key
\* given (None or empty) while the configured key is empty raises ValueError
\* and creates no provider client, so no provider call follows; a service
\* that exists holds a non-empty API key, the given one if there was one,
\* else the configured one.
ConfigurationError ==
  \A t \in Tasks :
    LET r == task[t] IN
      /\ ( /\ r.kind \in {"transport", "extract"}
           /\ r.pc # "init"
           /\ ~truthy(r.api_key_arg)
           /\ ~truthy(r.settings_key) ) =>
           /\ r.pc = "init_raised"
           /\ r.error = "ValueError"
           /\ ~ServiceExists(r)
           /\ r.calls = 0
           /\ r.extractions = 0
      /\ r.pc = "init_raised" =>
           ~truthy(r.api_key_arg) /\ ~truthy(r.settings_key)
      /\ ServiceExists(r) =>
           /\ truthy(r.api_key)
           /\ r.api_key = IF truthy(r.api_key_arg) THEN r.api_key_arg
                                                   ELSE r.settings_key

ConfigurationErrorWitness ==
  \E t \in Tasks :
    /\ task[t].api_key_arg = ""
    /\ task[t].settings_key = ""
    /\ task[t].pc = "init_raised"
    /\ task[t].error = "ValueError"
    /\ task[t].client = "none"

\* C17 - Default model identifier (as claimed): a service constructed
\* without a model identifier, the argument omitted or None, uses
\* DEFAULT_MODEL for its provider calls, and every outcome it returns has
\* model_used equal to the service's identifier.
DefaultModelWhenNotSupplied ==
  \A t \in Tasks :
    LET r == task[t] IN
      /\ (ServiceExists(r) /\ r.model_arg \in {Omitted, NoneStr}) =>
           r.model = DEFAULT_MODEL
      /\ r.extraction_result # None =>
           r.extraction_result.model_used = r.model

\* a system instruction block without its cache annotation
without_cache_control(block) == [type |-> block.type, text |-> block.text]

\* the run of extract_model_data is over
ExtractionOver(r) == r.pc \in {"extracted", "extract_raised"}

\* C18 - Cache flag non-interference: of two runs of extract_model_data on
\* the same text with the same service, one with use_cache and one without,
\* the requests have the same model, user message, output schema, token
\* limit and system instruction text and the same retry parameters, and
\* differ only in the cache_control key of the system block; facing the
\* same provider outcomes the runs make the same number of calls and the
\* same sleeps and end alike, with equal data, tokens_used and model_used
\* or with the same error.
CacheFlagNonInterference ==
  \A a, b \in Tasks :
    LET ra == task[a]  rb == task[b] IN
      ( /\ ra.kind = "extract" /\ rb.kind = "extract"
        /\ ra.use_cache /\ ~rb.use_cache
        /\ ra.text = rb.text
        /\ ra.model = rb.model ) =>
        /\ (ra.request # None /\ rb.request # None) =>
             /\ ra.request.model = rb.request.model
             /\ ra.request.messages = rb.request.messages
             /\ ra.request.output_format = rb.request.output_format
             /\ ra.request.max_tokens = rb.request.max_tokens
             /\ Len(ra.request.system) = 1 /\ Len(rb.request.system) = 1
             /\ without_cache_control(ra.request.system[1]) = rb.request.system[1]
             /\ ra.request.system[1].cache_control = [type |-> "ephemeral"]
             /\ ra.max_retries = rb.max_retries
             /\ ra.initial_delay = rb.initial_delay
        /\ (ExtractionOver(ra) /\ ExtractionOver(rb)) =>
             (ra.request = None <=> rb.request = None)
        /\ ra.outcomes = rb.outcomes => ra.calls = rb.calls
        /\ ( /\ ExtractionOver(ra) /\ ExtractionOver(rb)
             /\ ra.outcomes = rb.outcomes
             /\ ra.response = rb.response ) =>
             /\ ra.pc = rb.pc
             /\ ra.sleeps = rb.sleeps
             /\ ra.error = rb.error
             /\ ra.extraction_result = rb.extraction_result

CacheFlagNonInterferenceWitness ==
  /\ task["cached"].pc = "extracted"
  /\ task["uncached"].pc = "extracted"
  /\ task["cached"].outcomes = task["uncached"].outcomes
  /\ task["cached"].calls = 2
  /\ task["cached"].response = task["uncached"].response
  /\ task["cached"].extraction_result.data # None
  /\ task["cached"].request # task["uncached"].request

\* C19 - Cancellation (as claimed): an extraction request cancelled during
\* a provider call or a retry delay ends with the cancellation itself, and
\* the provider client of the request has been closed.
CancellationReleasesClient ==
  \A t \in Tasks :
    task[t].pc = "cancelled" =>
      /\ task[t].error = "CancelledError"
      /\ task[t].http = None
      /\ task[t].client = "closed"

\* the provider clients that were opened and have not been closed
OpenClients == {t \in Tasks : task[t].client = "open"}

\* C20 - Single long-lived client (as claimed): however many extraction
\* requests are served, at most one provider client is open.
SingleLongLivedClient == Cardinality(OpenClients) <= 1

\* the coroutine has left the transport (returned, raised or abandoned)
TransportOver(r) ==
  r.pc \notin {"init", "request", "transport", "extract", "call", "sleep"}

\* one step of task t seen as a transition of the transport's state machine;
\* Attempting(k) is pc = "call" with attempt = k - 1, the wait before
\* Attempting(k+1) is pc = "sleep", Success is a return with a response,
\* Exhausted and Failed are a raise of a transient and of another error.
\* A cancellation abandons the execution where it is.
TransportTransition(t) ==
  LET r == task[t]  q == task'[t] IN
    /\ (r.pc = "transport" /\ q.pc # "transport") =>
         q.pc = "call" /\ q.attempt = 0 /\ q.calls = 0
    /\ (r.pc = "extract" /\ q.pc \notin {"extract", "extract_raised"}) =>
         q.pc = "call" /\ q.attempt = 0 /\ q.calls = 0
    /\ (r.pc = "call" /\ q.pc # "call") =>
         \/ q.pc = "cancelled"
         \/ /\ q.pc = "transport_returned"
            /\ q.response # None
            /\ Last(q.outcomes) = "ok"
         \/ /\ q.pc = "sleep"
            /\ Category(Last(q.outcomes)) = "transient"
            /\ r.attempt + 1 <= r.max_retries
         \/ /\ q.pc = "transport_raised"
            /\ \/ /\ Category(Last(q.outcomes)) = "transient"
                  /\ r.attempt + 1 = r.max_retries + 1
               \/ Category(Last(q.outcomes)) = "fatal"
    /\ (r.pc = "sleep" /\ q.pc # "sleep") =>
         \/ q.pc = "cancelled"
         \/ /\ q.pc = "call"
            /\ q.attempt = r.attempt + 1
            /\ Len(q.sleeps) = Len(r.sleeps) + 1
    /\ q.pc = "call" => q.attempt + 1 <= q.max_retries + 1
    /\ TransportOver(r) =>
         /\ TransportOver(q)
         /\ q.calls = r.calls
         /\ q.sleeps = r.sleeps

\* C21 - Transport state machine (as claimed): every execution of the
\* transport starts in Attempting(1), moves only along Attempting(k) ->
\* Success, Attempting(k) -> wait -> Attempting(k+1) (transient failure,
\* k <= max_retries), Attempting(k) -> Exhausted (transient failure,
\* k = max_retries + 1) and Attempting(k) -> Failed (other failure), never
\* has an attempt index above max_retries + 1, and makes no call and takes
\* no delay once it is over.
TransportStateMachine == [][\A t \in Tasks : TransportTransition(t)]_vars

\* the terminal states of the transport, read from the call log
TransportSuccess(r) ==
  TransportOver(r) /\ r.outcomes # <<>> /\ Last(r.outcomes) = "ok"

TransportFailed(r) ==
  /\ FailurePropagated(r)
  /\ r.outcomes # <<>>
  /\ Category(Last(r.outcomes)) = "fatal"

\* C22 - Termination of the transport: on an event loop that completes
\* every awaited provider call and every awaited sleep, an invocation with
\* max_retries >= 0 that is in its retry loop eventually is in a terminal
\* state, Success, Exhausted or Failed (or its task has been cancelled),
\* whatever the provider answers; and it is never in two of them.
TransportTerminates ==
  \A t \in ServiceTaskIds :
    /\ [](~(TransportSuccess(task[t]) /\ Exhausted(task[t]))
          /\ ~(TransportSuccess(task[t]) /\ TransportFailed(task[t]))
          /\ ~(Exhausted(task[t]) /\ TransportFailed(task[t])))
    /\ (InRetryLoop(task[t]) /\ task[t].max_retries >= 0)
         ~> \/ TransportSuccess(task[t])
            \/ Exhausted(task[t])
            \/ TransportFailed(task[t])
            \/ task[t].pc = "cancelled"

TransportTerminatesWitness ==
  \E t \in Tasks :
    /\ task[t].kind = "transport"
    /\ task[t].max_retries = MaxRetriesArg
    /\ Exhausted(task[t])
    /\ Len(task[t].sleeps) = MaxRetriesArg
    /\ task[t].error = "APIConnectionError"

\* C23 - Success stops retrying: when provider call k succeeds after k-1
\* transient failures, the transport has returned the very response the
\* provider gave to call k, after exactly k calls and k-1 delays, k being
\* at most max_retries + 1; it is out of its retry loop, and its caller holds
\* no error.
SuccessStopsRetrying ==
  \A t \in Tasks :
    LET r == task[t]  k == Len(r.outcomes) IN
      (r.outcomes # <<>> /\ Last(r.outcomes) = "ok") =>
        /\ AllTransient(SubSeq(r.outcomes, 1, k - 1))
        /\ r.calls = k
        /\ k <= r.max_retries + 1
        /\ Len(r.sleeps) = k - 1
        /\ r.provided # None
        /\ r.response = r.provided
        /\ ~InRetryLoop(r)
        /\ r.pc # "transport_raised"
        /\ r.pc = "transport_returned" => r.error = NoneStr

SuccessStopsRetryingWitness ==
  \E t \in Tasks :
    /\ task[t].kind = "transport"
    /\ task[t].pc = "transport_returned"
    /\ task[t].calls = 3
    /\ Len(task[t].sleeps) = 2
    /\ Last(task[t].outcomes) = "ok"
    /\ task[t].response # None
    /\ task[t].response.usage.input_tokens = 500

\* C24 - Last failure is the one reported: when the transport has exhausted
\* its attempts, the exception its caller gets is the one the provider
\* raised in the final call, number max_retries + 1, of the class that call
\* raised (the object itself, so with its detail), not the exception of an
\* earlier call and not a new one.
LastFailureReported ==
  \A t \in Tasks :
    LET r == task[t] IN
      Exhausted(r) =>
        /\ r.error_call = r.max_retries + 1
        /\ r.error_call = Len(r.outcomes)
        /\ r.error = r.outcomes[r.error_call]
        /\ r.error \in RetryableErrors

LastFailureReportedWitness ==
  \E t \in Tasks :
    /\ task[t].kind = "transport"
    /\ task[t].max_retries = 2
    /\ Exhausted(task[t])
    /\ task[t].pc = "transport_raised"
    /\ task[t].error_call = 3
    /\ task[t].error = "RateLimitError"

\* C25 - No swallowed failure (as claimed): whatever integer max_retries is,
\* the transport has returned normally only if a provider call succeeded,
\* and then with that call's response; it never returns without a response.
NoSwallowedFailure ==
  \A t \in Tasks :
    LET r == task[t] IN
      r.pc = "transport_returned" =>
        /\ r.calls >= 1
        /\ Last(r.outcomes) = "ok"
        /\ r.response # None
        /\ r.response = r.provided

\* the transport called by extract_model_data has raised
TransportRaisedInExtraction(r) ==
  /\ r.kind = "extract"
  /\ r.pc \in {"transport_raised", "extract_raised"}
  /\ r.outcomes # <<>>
  /\ Last(r.outcomes) # "ok"

\* C26 - Orchestrator propagates transport failures unchanged: when the
\* transport raised inside extract_model_data (transient failures
\* exhausted, or a non-transient failure), the error extract_model_data
\* raises is that same exception, no outcome is returned, and the step that
\* propagates it makes no provider call, takes no delay and does not enter
\* the transport again.
OrchestratorPropagatesUnchanged ==
  /\ [](\A t \in ServiceTaskIds :
          TransportRaisedInExtraction(task[t]) =>
            /\ task[t].error = Last(task[t].outcomes)
            /\ task[t].error_call = task[t].calls
            /\ task[t].extraction_result = None
            /\ task[t].extractions = 1)
  /\ [][\A t \in ServiceTaskIds :
          TransportRaisedInExtraction(task[t]) =>
            /\ task'[t].pc \in {task[t].pc, "extract_raised"}
            /\ task'[t].error = task[t].error
            /\ task'[t].calls = task[t].calls
            /\ task'[t].sleeps = task[t].sleeps
            /\ task'[t].extractions = task[t].extractions]_vars

OrchestratorPropagatesUnchangedWitness ==
  \E t \in Tasks :
    /\ task[t].kind = "extract"
    /\ task[t].pc = "extract_raised"
    /\ task[t].calls = 2
    /\ task[t].error = "AuthenticationError"
    /\ task[t].extraction_result = None

RECURSIVE SumSeq(_)
SumSeq(seq) == IF seq = <<>> THEN 0 ELSE Head(seq) + SumSeq(Tail(seq))

\* C27 - Bounded provider cost per extraction (as claimed): every finished
\* run of extract_model_data has invoked the transport once with
\* max_retries = 3 and initial delay 1, has made at least 1 and at most 4
\* provider calls and has waited at most 7 seconds.
BoundedProviderCost ==
  \A t \in Tasks :
    LET r == task[t] IN
      (r.kind = "extract" /\ ExtractionOver(r)) =>
        /\ r.max_retries = 3
        /\ r.initial_delay = 1
        /\ r.calls >= 1
        /\ r.calls <= 4
        /\ SumSeq(r.sleeps) <= 7

\* C27 (amended) - a run of extract_model_data on a text that is not blank
\* invokes the transport once, with max_retries = 3 and initial delay 1: it
\* makes at most 4 provider calls, at least 1 when it has finished, and
\* waits at most 1 + 2 + 4 = 7 seconds; on a blank text it does not invoke
\* the transport and makes no provider call at all.
BoundedProviderCostNonBlank ==
  \A t \in Tasks :
    LET r == task[t] IN
      r.kind = "extract" =>
        /\ r.extractions <= 1
        /\ r.calls <= 4
        /\ SumSeq(r.sleeps) <= 7
        /\ \A k \in 1..Len(r.sleeps) : r.sleeps[k] = Pow2(k - 1)
        /\ (InRetryLoop(r) \/ ExtractionOver(r)) => r.extractions = 1
        /\ (r.extractions = 1 /\ ~Blank(r.text)) =>
             /\ r.max_retries = 3
             /\ r.initial_delay = 1
             /\ r.request # None
             /\ ExtractionOver(r) => r.calls >= 1
        /\ (r.extractions = 1 /\ Blank(r.text)) =>
             /\ r.calls = 0
             /\ r.sleeps = <<>>
             /\ r.request = None

BoundedProviderCostNonBlankWitness ==
  \E t \in Tasks :
    /\ task[t].kind = "extract"
    /\ ~Blank(task[t].text)
    /\ task[t].pc = "extract_raised"
    /\ task[t].calls = 4
    /\ task[t].sleeps = <<1, 2, 4>>

\* the position of an extraction request in its pipeline
PipelineStage(pc) ==
  CASE pc = "request" -> 0
    [] pc = "extract" -> 1
    [] pc \in {"call", "sleep"} -> 2
    [] pc \in {"transport_returned", "transport_raised"} -> 3
    [] pc \in {"extracted", "extract_raised"} -> 4
    [] pc = "convert" -> 5
    [] pc = "lookup" -> 6
    [] pc = "insert" -> 7
    [] OTHER -> 8

\* C28 - Pipeline ordering: an extraction request goes through extract,
\* validate, map, name lookup, insert in this order and never back; it
\* reads or writes the catalogue only when its extraction has returned an
\* outcome with data (a model_name) and the create request has been built
\* from it; and it inserts only after its one lookup, which found no record
\* of that name.
PipelineOrdering ==
  /\ [](\A t \in Requests :
          LET r == task[t] IN
            r.kind = "endpoint" =>
              /\ r.inserts <= r.lookups
              /\ r.lookups <= 1
              /\ (r.lookups > 0 \/ r.pc \in {"lookup", "insert"}) =>
                   /\ r.extractions = 1
                   /\ ExtractedData(r)
                   /\ ~no_data_extracted(r.extraction_result.data)
                   /\ r.model_create # None
                   /\ r.model_create.name = r.extraction_result.data.model_name
              /\ r.pc = "insert" => r.lookups = 1 /\ r.inserts = 0)
  /\ [][\A t \in Requests :
          LET r == task[t]  q == task'[t] IN
            r.kind = "endpoint" =>
              /\ PipelineStage(q.pc) >= PipelineStage(r.pc)
              /\ q.lookups > r.lookups => r.pc = "lookup"
              /\ q.inserts > r.inserts => r.pc = "insert"
              /\ (db' # db /\ q # r) => r.pc = "insert"
              /\ (r.pc = "lookup" /\ q.pc = "insert") =>
                   ~\E x \in db : x.name = r.model_create.name
              /\ (r.pc = "lookup" /\ q.pc = "done") =>
                   \E x \in db : x.name = r.model_create.name]_vars

PipelineOrderingWitness ==
  \E t \in Tasks :
    /\ task[t].kind = "endpoint"
    /\ Answered(task[t], 201)
    /\ task[t].lookups = 1
    /\ task[t].inserts = 1
    /\ \E x \in db : x.name = task[t].extraction_result.data.model_name

\* the retry state of an invocation: its loop variable, its backoff delay,
\* and what it has done so far
RetryState(r) == <<r.attempt, r.delay, r.calls, r.sleeps>>

\* C29 - Independence of concurrent extractions: of the requests in flight
\* at once, a step of one leaves the attempt counter, the backoff delay, the
\* call count and the delays of the other untouched; the provider calls and
\* delays of an invocation are those its own outcomes account for (one call
\* per outcome, delay k = initial_delay * 2^(k-1)), and two invocations
\* with the same parameters at the same point (not abandoned by a
\* cancellation) after the same outcomes have the same retry state,
\* whatever happened to the other in between.
ConcurrentExtractionsIndependent ==
  /\ [](\A a \in Requests :
          LET r == task[a] IN
            /\ r.calls = Len(r.outcomes)
            /\ \A k \in 1..Len(r.sleeps) :
                 r.sleeps[k] = r.initial_delay * Pow2(k - 1)
            /\ InRetryLoop(r) =>
                 /\ r.attempt = Len(r.sleeps)
                 /\ r.delay = r.initial_delay * Pow2(r.attempt)
                 /\ r.calls = IF r.pc = "sleep" THEN r.attempt + 1
                                                ELSE r.attempt)
  /\ [](\A a, b \in Requests :
          ( /\ task[a].max_retries = task[b].max_retries
            /\ task[a].initial_delay = task[b].initial_delay
            /\ task[a].pc = task[b].pc
            /\ task[a].pc # "cancelled"
            /\ task[a].outcomes = task[b].outcomes ) =>
            RetryState(task[a]) = RetryState(task[b]))
  /\ [][\A a, b \in Requests :
          (a # b /\ task'[a] # task[a]) =>
            RetryState(task'[b]) = RetryState(task[b])]_vars

ConcurrentExtractionsIndependentWitness ==
  \E a, b \in Tasks :
    /\ a # b
    /\ task[a].kind = "endpoint" /\ task[b].kind = "endpoint"
    /\ task[a].pc = "sleep" /\ task[a].sleeps = <<1, 2>> /\ task[a].delay = 4
    /\ task[b].pc = "sleep" /\ task[b].sleeps = <<>> /\ task[b].delay = 1

\* the request has touched neither the provider nor the catalogue
NothingSpent(r) ==
  /\ r.calls = 0
  /\ r.outcomes = <<>>
  /\ r.request = None
  /\ r.lookups = 0
  /\ r.inserts = 0

\* C30 - Provider is called only for usable input: an extraction request
\* has a provider call in flight or behind it only if its text has at least
\* 10 characters and is not whitespace only; a text of fewer than 10
\* characters is answered 422 before the handler runs, a whitespace-only
\* text of 10 or more characters is answered 400 by way of the
\* orchestrator's ValueError, and both have made no provider call and have
\* not touched the catalogue.
ProviderCalledOnlyForUsableInput ==
  \A t \in Tasks :
    LET r == task[t] IN
      r.kind = "endpoint" =>
        /\ (r.calls > 0 \/ InRetryLoop(r) \/ r.request # None) =>
             Len(r.text) >= 10 /\ ~Blank(r.text)
        /\ (Len(r.text) < 10 /\ r.pc # "request") =>
             /\ r.http = http_error(422, DETAIL_TOO_SHORT)
             /\ r.pc = "done"
             /\ r.extractions = 0
             /\ NothingSpent(r)
        /\ (Len(r.text) >= 10 /\ Blank(r.text)) =>
             /\ r.pc \in {"request", "extract", "extract_raised", "done"}
             /\ r.pc \in {"extract_raised", "done"} =>
                  r.extractions = 1 /\ r.error = "ValueError"
             /\ r.pc = "done" => r.http = http_error(400, DETAIL_EMPTY)
             /\ NothingSpent(r)

ProviderCalledOnlyForUsableInputWitness ==
  \E a, b \in Tasks :
    /\ task[a].kind = "endpoint" /\ task[b].kind = "endpoint"
    /\ Len(task[a].text) = 9
    /\ Answered(task[a], 422)
    /\ Len(task[b].text) = 10
    /\ Blank(task[b].text)
    /\ Answered(task[b], 400)
    /\ db = {}

====
